---- MODULE Spec2Model ----
(***************************************************************************)
(* A model of plex_ai_titler.py: the MyPlex authentication flow and main   *)
(* (Spec), the batch loop process_library_items (SpecBatch) and the pure   *)
(* path function get_relative_path (SpecPath).                             *)
(*                                                                         *)
(* Path strings, titles and typed input are sequences of one-character     *)
(* strings, so that prefix tests, stripping and slicing are computed.      *)
(***************************************************************************)
EXTENDS Integers, Sequences, FiniteSets, TLC

\* ---------------------------------------------------------------- bounds
MaxPathLen == 5
MaxRootLen == 3
MaxRoots == 2
MaxItems == 2
MaxBadInputs == 1

\* ------------------------------------------------------- string helpers
sep == "/"

PathChars == {"/", "a", "b"}

RECURSIVE rstrip(_, _)
rstrip(s, c) ==
    IF Len(s) > 0 /\ s[Len(s)] = c THEN rstrip(SubSeq(s, 1, Len(s) - 1), c) ELSE s

RECURSIVE lstrip(_, _)
lstrip(s, c) ==
    IF Len(s) > 0 /\ s[1] = c THEN lstrip(SubSeq(s, 2, Len(s)), c) ELSE s

strip(s) == rstrip(lstrip(s, " "), " ")

startswith(s, prefix) ==
    /\ Len(prefix) <= Len(s)
    /\ SubSeq(s, 1, Len(prefix)) = prefix

\* str.rfind: the highest index holding c, 0 when there is none (Python's -1,
\* shifted by the one-based indexing of sequences).
rfind(s, c) ==
    LET hits == {i \in 1..Len(s) : s[i] = c}
    IN  IF hits = {} THEN 0 ELSE CHOOSE i \in hits : \A j \in hits : j <= i

basename_first(p) == SubSeq(p, 1, rfind(p, sep))

basename(p) == SubSeq(p, rfind(p, sep) + 1, Len(p))

location_prefix(location) == rstrip(location, sep) \o <<sep>>

RECURSIVE get_relative_path(_, _)
get_relative_path(filepath, library_locations) ==
    IF library_locations = <<>> THEN basename(filepath)
    ELSE IF startswith(filepath, location_prefix(Head(library_locations)))
         THEN SubSeq(filepath, Len(location_prefix(Head(library_locations))) + 1,
                     Len(filepath))
         ELSE get_relative_path(filepath, Tail(library_locations))

SeqsUpTo(S, n) == UNION {[1..k -> S] : k \in 0..n}

\* Plex reports absolute paths, for the files and for the library locations.
AbsolutePaths(n) == {p \in SeqsUpTo(PathChars, n) : Len(p) > 0 /\ p[1] = sep}

\* ------------------------------------------------------------ the state
VARIABLES
    pc,            \* position of the program
    exit,          \* how the process ended: "running" until it ends
    args,          \* command line: url, token, username, password given or not
    plexConfig,    \* plexapi CONFIG: auth.myplex_username / _password set or not
    cfg,           \* the YAML configuration file
    credFile,      \* content of CREDS_FILE
    cached_token,  \* local of authenticate_myplex
    account,       \* authToken of the MyPlexAccount held, "none" before
    authLog,       \* calls made by the authentication flow, in order
    interrupted,   \* the prompt at which the user cancelled input, and how
    badInputs,     \* invalid menu answers typed so far
    dry_run,       \* argument of process_library_items
    items,         \* library.all()
    library_locations,
    titles,        \* the catalog's title of each item
    idx,           \* number of items the loop has handled
    processed, skipped_locked, skipped_no_file, errors,
    llmLog,        \* chat-completion requests made, in order
    writeLog,      \* editTitle calls made, in order
    out,           \* lines printed by process_library_items, by kind
    counted,       \* history: the counter each handled item incremented
    filepath, roots, relative_path,  \* get_relative_path: inputs and result
    run,           \* which run of the batch this is: 1, or 2 when it is repeated
    first,         \* history: what the first of two runs did
    raised,        \* history: the item and step that raised outside the try block
    credFile0,     \* history: content of CREDS_FILE when the process started
    rejection,     \* history: message of the rejected password attempt
    typed          \* history: what the user answered to the run-mode prompts

mainVars == <<args, plexConfig, cfg, credFile, cached_token, account, authLog,
              interrupted, badInputs>>
batchVars == <<items, library_locations, titles, idx, processed, skipped_locked,
               skipped_no_file, errors, llmLog, writeLog, out, counted>>
pathVars == <<filepath, roots, relative_path>>
noteVars == <<run, first, raised, credFile0, rejection, typed>>
vars == <<pc, exit, dry_run, mainVars, batchVars, pathVars, noteVars>>

NoPath == <<"?">>

NotInterrupted == [at |-> "none", kind |-> "none"]

BatchIdle ==
    /\ items = <<>> /\ library_locations = <<>> /\ titles = <<>>
    /\ idx = 0
    /\ processed = 0 /\ skipped_locked = 0 /\ skipped_no_file = 0 /\ errors = 0
    /\ llmLog = <<>> /\ writeLog = <<>> /\ out = <<>> /\ counted = <<>>

PathIdle == filepath = <<>> /\ roots = <<>> /\ relative_path = NoPath

NoFirstRun ==
    [items |-> <<>>, library_locations |-> <<>>, titles |-> <<>>, idx |-> 0,
     processed |-> 0, skipped_locked |-> 0, skipped_no_file |-> 0, errors |-> 0,
     llmLog |-> <<>>, out |-> <<>>, exit |-> "running", raised |-> "none"]

NotRaised == [item |-> 0, step |-> "none"]

NotAsked == <<"?">>

NothingTyped == [choice |-> NotAsked, confirm |-> NotAsked]

NotesIdle ==
    /\ run = 1
    /\ first = NoFirstRun
    /\ raised = NotRaised
    /\ credFile0 = credFile
    /\ rejection = <<>>
    /\ typed = NothingTyped

\* A run that was given --url and --token: no authentication state is touched.
MainDirect ==
    /\ args = [url |-> TRUE, token |-> TRUE, username |-> FALSE, password |-> FALSE]
    /\ plexConfig = [username |-> FALSE, password |-> FALSE]
    /\ cfg = "ok"
    /\ credFile = "absent"
    /\ cached_token = "none"
    /\ account = "none"
    /\ authLog = <<>>
    /\ interrupted = NotInterrupted
    /\ badInputs = 0

\* The process ends: pc stays at "halt" and exit tells how.
Halt(status) ==
    /\ pc' = "halt"
    /\ exit' = status

\* What main does with an exception of class Exception raised anywhere in its
\* try block (lines 436-438): print "Error: ..." and sys.exit(1).
Fatal == Halt("error_1")

\* print(...) followed by sys.exit(1): SystemExit passes main's except clause.
SysExit1 == Halt("sys_exit_1")

\* print("Cancelled.") followed by sys.exit(0).
Cancelled == Halt("cancelled_0")

\* ------------------------------------------- get_relative_path (SpecPath)
InitPath ==
    /\ pc = "get_relative_path"
    /\ exit = "running"
    /\ dry_run = TRUE
    /\ MainDirect
    /\ BatchIdle
    /\ filepath \in AbsolutePaths(MaxPathLen)
    /\ roots \in SeqsUpTo(AbsolutePaths(MaxRootLen), MaxRoots)
    /\ relative_path = NoPath
    /\ NotesIdle

Resolve ==
    /\ pc = "get_relative_path"
    /\ relative_path' = get_relative_path(filepath, roots)
    /\ pc' = "returned"
    /\ UNCHANGED <<exit, dry_run, mainVars, batchVars, filepath, roots, noteVars>>

NextPath == Resolve

SpecPath == InitPath /\ [][NextPath]_vars

\* ------------------------------------ process_library_items (SpecBatch)
P1 == <<"/", "m", "/", "a">>
P2 == <<"/", "x", "/", "b">>
EmptyFile == <<>>
OldTitle == <<"O">>

TitleLockedField == [name |-> "title", locked |-> TRUE]
TitleOpenField == [name |-> "title", locked |-> FALSE]
SummaryLockedField == [name |-> "summary", locked |-> TRUE]

\* The catalog items a library may return: with and without iterParts, with no
\* part, a part without file, one file, several files; with no field record, a
\* locked or unlocked title field, and other locked fields.
ItemKinds ==
    { [hasIterParts |-> FALSE, parts |-> <<>>, fields |-> <<>>],
      [hasIterParts |-> TRUE, parts |-> <<>>, fields |-> <<TitleLockedField>>],
      [hasIterParts |-> TRUE, parts |-> <<EmptyFile>>, fields |-> <<TitleOpenField>>],
      [hasIterParts |-> TRUE, parts |-> <<P1>>, fields |-> <<>>],
      [hasIterParts |-> TRUE, parts |-> <<P1>>, fields |-> <<TitleLockedField>>],
      [hasIterParts |-> TRUE, parts |-> <<P2, P1>>, fields |-> <<TitleOpenField>>],
      [hasIterParts |-> TRUE, parts |-> <<EmptyFile, P2, P1>>,
       fields |-> <<SummaryLockedField, TitleLockedField>>],
      [hasIterParts |-> TRUE, parts |-> <<EmptyFile, P1>>,
       fields |-> <<SummaryLockedField>>] }

LocationChoices == { << <<"/", "m", "/">> >>, << <<"/">>, <<"/", "m">> >>, <<>> }

Contents == { <<" ", "N", " ">>, <<"M">>, <<>> }

GenerationFailures == {"transport_error", "malformed_response"}

get_item_filepaths_nofilter(item) ==
    IF item.hasIterParts THEN item.parts ELSE <<>>

get_item_filepaths(item) ==
    IF item.hasIterParts
    THEN SelectSeq(item.parts, LAMBDA file : file # EmptyFile)
    ELSE <<>>

is_title_locked_first_field(item) ==
    /\ item.fields # <<>>
    /\ item.fields[1].name = "title" /\ item.fields[1].locked

RECURSIVE fields_lock_title(_)
fields_lock_title(fields) ==
    IF fields = <<>> THEN FALSE
    ELSE IF Head(fields).name = "title" /\ Head(fields).locked THEN TRUE
    ELSE fields_lock_title(Tail(fields))

is_title_locked(item) ==
    IF item.fields = <<>> THEN FALSE ELSE fields_lock_title(item.fields)

generate_title(content) == strip(content)

InitBatch ==
    /\ pc = "process_library_items"
    /\ exit = "running"
    /\ dry_run \in BOOLEAN
    /\ MainDirect
    /\ BatchIdle
    /\ PathIdle
    /\ NotesIdle

FetchItemsKeepsCounters ==
    /\ pc = "process_library_items"
    /\ items' \in SeqsUpTo(ItemKinds, MaxItems)
    /\ library_locations' \in LocationChoices
    /\ titles' = [i \in 1..Len(items') |-> OldTitle]
    /\ idx' = 0
    /\ pc' = "loop"
    /\ UNCHANGED <<exit, dry_run, mainVars, processed, skipped_locked, skipped_no_file,
                   errors, llmLog, writeLog, out, counted, pathVars, noteVars>>

\* lines 268-278: library.all(), library.locations, the counters set to 0.
FetchItems ==
    /\ pc = "process_library_items"
    /\ items' \in SeqsUpTo(ItemKinds, MaxItems)
    /\ library_locations' \in LocationChoices
    /\ titles' = [i \in 1..Len(items') |-> OldTitle]
    /\ idx' = 0
    /\ processed' = 0 /\ skipped_locked' = 0 /\ skipped_no_file' = 0 /\ errors' = 0
    /\ pc' = "loop"
    /\ UNCHANGED <<exit, dry_run, mainVars, llmLog, writeLog, out, counted, pathVars, noteVars>>

\* library.all() or library.locations raises (lines 269-270).
FetchRaises ==
    /\ pc = "process_library_items"
    /\ Fatal
    /\ raised' = [item |-> 0, step |-> "fetch"]
    /\ UNCHANGED <<dry_run, mainVars, batchVars, pathVars, run, first, credFile0,
                   rejection, typed>>

InLoop == pc = "loop" /\ idx < Len(items)

item == items[idx + 1]

Count(tag) ==
    /\ idx' = idx + 1
    /\ counted' = Append(counted, tag)
    /\ processed' = processed + (IF tag = "processed" THEN 1 ELSE 0)
    /\ skipped_locked' = skipped_locked + (IF tag = "skipped_locked" THEN 1 ELSE 0)
    /\ skipped_no_file' = skipped_no_file + (IF tag = "skipped_no_file" THEN 1 ELSE 0)
    /\ errors' = errors + (IF tag = "errors" THEN 1 ELSE 0)

\* An exception raised by the catalog while the item's parts or fields are
\* read (get_item_filepaths and is_title_locked, lines 281-287, outside the
\* try block): it leaves the loop and the function.
ItemAccessRaises ==
    /\ InLoop
    /\ Fatal
    /\ raised' = [item |-> idx + 1, step |-> "item_access"]
    /\ UNCHANGED <<dry_run, mainVars, batchVars, pathVars, run, first, credFile0,
                   rejection, typed>>

SkipNoFile ==
    /\ InLoop
    /\ get_item_filepaths(item) = <<>>
    /\ Count("skipped_no_file")
    /\ UNCHANGED <<pc, exit, dry_run, mainVars, items, library_locations, titles,
                   llmLog, writeLog, out, pathVars, noteVars>>

SkipLocked ==
    /\ InLoop
    /\ get_item_filepaths(item) # <<>>
    /\ is_title_locked(item)
    /\ Count("skipped_locked")
    /\ out' = Append(out, "SKIP (locked)")
    /\ UNCHANGED <<pc, exit, dry_run, mainVars, items, library_locations, titles,
                   llmLog, writeLog, pathVars, noteVars>>

Eligible ==
    /\ InLoop
    /\ get_item_filepaths(item) # <<>>
    /\ ~is_title_locked(item)

request_path_unresolved == get_item_filepaths(item)[1]

\* lines 293-294.
request_path == get_relative_path(get_item_filepaths(item)[1], library_locations)

\* An exception raised while the path of an eligible item is resolved and its
\* current title read (lines 293-295, before the try block): it leaves the
\* loop and the function as well.
ResolvePathRaises ==
    /\ Eligible
    /\ Fatal
    /\ raised' = [item |-> idx + 1, step |-> "resolve_path"]
    /\ UNCHANGED <<dry_run, mainVars, batchVars, pathVars, run, first, credFile0,
                   rejection, typed>>

Request(result, content) ==
    [item |-> idx + 1, path |-> request_path, result |-> result, content |-> content]

EditTitle(title, result) == [item |-> idx + 1, title |-> title, result |-> result]

GenerateFailsAborts ==
    /\ Eligible
    /\ \E failure \in GenerationFailures :
           llmLog' = Append(llmLog, Request(failure, <<>>))
    /\ Fatal
    /\ UNCHANGED <<dry_run, mainVars, items, library_locations, titles, idx, processed,
                   skipped_locked, skipped_no_file, errors, writeLog, out, counted,
                   pathVars, noteVars>>

\* generate_title raises (lines 298, 310-312).
GenerateFails ==
    /\ Eligible
    /\ \E failure \in GenerationFailures :
           llmLog' = Append(llmLog, Request(failure, <<>>))
    /\ out' = Append(out, "ERROR")
    /\ Count("errors")
    /\ UNCHANGED <<pc, exit, dry_run, mainVars, items, library_locations, titles,
                   writeLog, pathVars, noteVars>>

DryRunReportWrites ==
    /\ Eligible
    /\ dry_run
    /\ \E content \in Contents :
           /\ llmLog' = Append(llmLog, Request("ok", content))
           /\ writeLog' = Append(writeLog, EditTitle(generate_title(content), "ok"))
           /\ titles' = [titles EXCEPT ![idx + 1] = generate_title(content)]
    /\ out' = out \o <<"DRY RUN", "Path">>
    /\ Count("processed")
    /\ UNCHANGED <<pc, exit, dry_run, mainVars, items, library_locations, pathVars, noteVars>>

\* lines 298-302, 308.
DryRunReport ==
    /\ Eligible
    /\ dry_run
    /\ \E content \in Contents : llmLog' = Append(llmLog, Request("ok", content))
    /\ out' = out \o <<"DRY RUN", "Path">>
    /\ Count("processed")
    /\ UNCHANGED <<pc, exit, dry_run, mainVars, items, library_locations, titles,
                   writeLog, pathVars, noteVars>>

\* lines 298, 304-308.
UpdateTitle ==
    /\ Eligible
    /\ ~dry_run
    /\ \E content \in Contents :
           /\ llmLog' = Append(llmLog, Request("ok", content))
           /\ writeLog' = Append(writeLog, EditTitle(generate_title(content), "ok"))
           /\ titles' = [titles EXCEPT ![idx + 1] = generate_title(content)]
    /\ out' = out \o <<"UPDATE", "Path">>
    /\ Count("processed")
    /\ UNCHANGED <<pc, exit, dry_run, mainVars, items, library_locations, pathVars, noteVars>>

UpdateFailsCountsProcessed ==
    /\ Eligible
    /\ ~dry_run
    /\ \E content \in Contents, applied \in BOOLEAN :
           /\ llmLog' = Append(llmLog, Request("ok", content))
           /\ writeLog' = Append(writeLog, EditTitle(generate_title(content), "raised"))
           /\ titles' = IF applied
                        THEN [titles EXCEPT ![idx + 1] = generate_title(content)]
                        ELSE titles
    /\ out' = out \o <<"UPDATE", "Path", "ERROR">>
    /\ idx' = idx + 1
    /\ counted' = Append(counted, "errors")
    /\ processed' = processed + 1
    /\ errors' = errors + 1
    /\ UNCHANGED <<pc, exit, dry_run, mainVars, items, library_locations,
                   skipped_locked, skipped_no_file, pathVars, noteVars>>

\* item.editTitle raises (lines 306, 310-312); the catalog may or may not have
\* taken the new title before the call failed.
UpdateFails ==
    /\ Eligible
    /\ ~dry_run
    /\ \E content \in Contents, applied \in BOOLEAN :
           /\ llmLog' = Append(llmLog, Request("ok", content))
           /\ writeLog' = Append(writeLog, EditTitle(generate_title(content), "raised"))
           /\ titles' = IF applied
                        THEN [titles EXCEPT ![idx + 1] = generate_title(content)]
                        ELSE titles
    /\ out' = out \o <<"UPDATE", "Path", "ERROR">>
    /\ Count("errors")
    /\ UNCHANGED <<pc, exit, dry_run, mainVars, items, library_locations, pathVars, noteVars>>

\* lines 314-322, then main returns.
Summary ==
    /\ pc = "loop"
    /\ idx = Len(items)
    /\ out' = out \o (IF dry_run THEN <<"Summary", "This was a DRY RUN">>
                                 ELSE <<"Summary">>)
    /\ pc' = "halt"
    /\ exit' = "completed_0"
    /\ UNCHANGED <<dry_run, mainVars, items, library_locations, titles, idx, processed,
                   skipped_locked, skipped_no_file, errors, llmLog, writeLog, counted,
                   pathVars, noteVars>>

NextBatch ==
    \/ FetchItems
    \/ FetchRaises
    \/ ItemAccessRaises
    \/ ResolvePathRaises
    \/ SkipNoFile
    \/ SkipLocked
    \/ GenerateFails
    \/ DryRunReport
    \/ UpdateTitle
    \/ UpdateFails
    \/ Summary

SpecBatch == InitBatch /\ [][NextBatch]_vars

\* ------------------- process_library_items, twice in preview (SpecTwice)
\* The batch is run in preview mode and then run again against the same
\* catalog: the library returns the same items and locations and fails at the
\* same place, and the language-model service is a function of the path.
InitTwice ==
    /\ pc = "process_library_items"
    /\ exit = "running"
    /\ dry_run = TRUE
    /\ MainDirect
    /\ BatchIdle
    /\ PathIdle
    /\ NotesIdle

ServiceIsFunction ==
    LET asked == first.llmLog \o llmLog
    IN  \A j, k \in 1..Len(asked) :
            asked[j].path = asked[k].path =>
                (asked[j].result = asked[k].result /\ asked[j].content = asked[k].content)

\* The first run is over; the program is started again.
RepeatRun ==
    /\ pc = "halt"
    /\ run = 1
    /\ run' = 2
    /\ first' = [items |-> items, library_locations |-> library_locations,
                 titles |-> titles, idx |-> idx, processed |-> processed,
                 skipped_locked |-> skipped_locked,
                 skipped_no_file |-> skipped_no_file, errors |-> errors,
                 llmLog |-> llmLog, out |-> out, exit |-> exit, raised |-> raised]
    /\ pc' = "process_library_items"
    /\ exit' = "running"
    /\ llmLog' = <<>> /\ writeLog' = <<>> /\ out' = <<>> /\ counted' = <<>>
    /\ raised' = NotRaised
    /\ UNCHANGED <<dry_run, mainVars, items, library_locations, titles, idx, processed,
                   skipped_locked, skipped_no_file, errors, pathVars, credFile0,
                   rejection, typed>>

RunFetchItems ==
    /\ FetchItems
    /\ run = 2 =>
           /\ first.raised.step # "fetch"
           /\ items' = first.items
           /\ library_locations' = first.library_locations

RunFetchRaises == FetchRaises /\ (run = 2 => first.raised.step = "fetch")

RunItemAccessRaises ==
    /\ ItemAccessRaises
    /\ run = 2 => first.raised = [item |-> idx + 1, step |-> "item_access"]

RunResolvePathRaises ==
    /\ ResolvePathRaises
    /\ run = 2 => first.raised = [item |-> idx + 1, step |-> "resolve_path"]

ItemReadable == run = 2 => first.raised.item # idx + 1

RunSkipNoFile == SkipNoFile /\ ItemReadable

RunSkipLocked == SkipLocked /\ ItemReadable

RunGenerateFails == GenerateFails /\ ItemReadable /\ ServiceIsFunction'

RunDryRunReport == DryRunReport /\ ItemReadable /\ ServiceIsFunction'

NextTwice ==
    \/ RunFetchItems
    \/ RunFetchRaises
    \/ RunItemAccessRaises
    \/ RunResolvePathRaises
    \/ RunSkipNoFile
    \/ RunSkipLocked
    \/ RunGenerateFails
    \/ RunDryRunReport
    \/ Summary
    \/ RepeatRun

SpecTwice == InitTwice /\ [][NextTwice]_vars

\* ------------------------------- main and authenticate_myplex (Spec)
Tokens == {"T_cached", "T_new"}

CredFileStates ==
    {"absent", "unreadable", "bad_json", "not_object", "no_token", "empty_token"}
        \cup {"T_cached"}

InputInterruptions == {"EOFError", "KeyboardInterrupt"}

Call(name, arg, result) == [call |-> name, arg |-> arg, result |-> result]

restVars == <<batchVars, pathVars, noteVars>>
givenVars == <<args, plexConfig, cfg>>

Init ==
    /\ pc = "main"
    /\ exit = "running"
    /\ dry_run = TRUE
    /\ args \in [url : BOOLEAN, token : BOOLEAN, username : BOOLEAN, password : BOOLEAN]
    /\ plexConfig \in [username : BOOLEAN, password : BOOLEAN]
    /\ cfg \in {"missing", "malformed", "empty_prompt", "no_prompt", "ok"}
    /\ credFile \in CredFileStates
    /\ cached_token = "none"
    /\ account = "none"
    /\ authLog = <<>>
    /\ interrupted = NotInterrupted
    /\ badInputs = 0
    /\ BatchIdle
    /\ PathIdle
    /\ NotesIdle

\* The value of config.system_prompt: a missing key defaults to "" (line 66).
system_prompt(config) ==
    IF config \in {"empty_prompt", "no_prompt"} THEN "" ELSE "prompt"

LoadConfigNoPromptCheck ==
    /\ pc = "main"
    /\ CASE cfg = "missing" -> SysExit1
         [] cfg = "malformed" -> Fatal
         [] OTHER -> pc' = "connect" /\ exit' = exit
    /\ UNCHANGED <<dry_run, mainVars, restVars>>

\* load_config and the system_prompt test (lines 402-412).
LoadConfig ==
    /\ pc = "main"
    /\ CASE cfg = "missing" -> SysExit1
         [] cfg = "malformed" -> Fatal
         [] system_prompt(cfg) = "" -> SysExit1
         [] OTHER -> pc' = "connect" /\ exit' = exit
    /\ UNCHANGED <<dry_run, mainVars, restVars>>

ConnectDirectOnEither ==
    /\ pc = "connect"
    /\ args.url \/ args.token
    /\ \/ pc' = "select_library" /\ exit' = exit
       \/ Fatal
    /\ UNCHANGED <<dry_run, mainVars, restVars>>

\* lines 415-417.
ConnectDirect ==
    /\ pc = "connect"
    /\ args.url /\ args.token
    /\ \/ pc' = "select_library" /\ exit' = exit
       \/ Fatal
    /\ UNCHANGED <<dry_run, mainVars, restVars>>

\* load_cached_token: the token of the record, "none" for None, "" for an empty
\* token; a JSON document that is no object makes data.get raise
\* AttributeError, which the except clause of line 85 does not catch.
load_cached_token_raises(file) == file = "not_object"

load_cached_token(file) ==
    CASE file \in {"absent", "unreadable", "bad_json", "no_token"} -> "none"
      [] file = "empty_token" -> ""
      [] OTHER -> file

clear_cached_token_keeps(file, unlinked) == file

\* clear_cached_token: unlink, an OSError is swallowed.
clear_cached_token(file, unlinked) == IF unlinked THEN "absent" ELSE file

SaveOutcomes == {"written", "open_failed", "write_failed", "chmod_failed"}

\* save_cached_token: open(.., "w") truncates, json.dump writes, chmod follows;
\* an OSError at any of them is reported as a warning.
save_cached_token(file, token, outcome) ==
    CASE outcome = "open_failed" -> file
      [] outcome = "write_failed" -> "bad_json"
      [] OTHER -> token

\* lines 418-419 and 114-115.
LoadCachedToken ==
    /\ pc = "connect"
    /\ ~(args.url /\ args.token)
    /\ authLog' = Append(authLog, Call("load_cached_token", "",
                         IF load_cached_token_raises(credFile)
                         THEN "AttributeError" ELSE load_cached_token(credFile)))
    /\ IF load_cached_token_raises(credFile)
       THEN Fatal /\ UNCHANGED cached_token
       ELSE /\ cached_token' = load_cached_token(credFile)
            /\ pc' = IF cached_token' \in {"none", ""} THEN "prompt_username"
                                                       ELSE "try_cache"
            /\ exit' = exit
    /\ UNCHANGED <<dry_run, givenVars, credFile, account, interrupted, badInputs,
                   restVars>>

\* lines 116-119.
CachedTokenAccepted ==
    /\ pc = "try_cache"
    /\ authLog' = Append(authLog, Call("MyPlexAccount", "token", "ok"))
    /\ account' = cached_token
    /\ pc' = "select_server"
    /\ UNCHANGED <<exit, dry_run, givenVars, credFile, cached_token, interrupted,
                   badInputs, restVars>>

CachedTokenRejectedNoClear ==
    /\ pc = "try_cache"
    /\ authLog' = Append(authLog, Call("MyPlexAccount", "token", "Unauthorized"))
    /\ pc' = "prompt_username"
    /\ UNCHANGED <<exit, dry_run, givenVars, credFile, cached_token, account,
                   interrupted, badInputs, restVars>>

\* lines 118, 120-122.
CachedTokenRejected ==
    /\ pc = "try_cache"
    /\ \E unlinked \in BOOLEAN :
           /\ authLog' = authLog \o
                  << Call("MyPlexAccount", "token", "Unauthorized"),
                     Call("clear_cached_token", "",
                          IF unlinked THEN "ok" ELSE "OSError") >>
           /\ credFile' = clear_cached_token(credFile, unlinked)
    /\ pc' = "prompt_username"
    /\ UNCHANGED <<exit, dry_run, givenVars, cached_token, account, interrupted,
                   badInputs, restVars>>

CachedTokenOtherFailureReauthenticates ==
    /\ pc = "try_cache"
    /\ authLog' = authLog \o << Call("MyPlexAccount", "token", "failed"),
                                Call("clear_cached_token", "", "ok") >>
    /\ credFile' = clear_cached_token(credFile, TRUE)
    /\ pc' = "prompt_username"
    /\ UNCHANGED <<exit, dry_run, givenVars, cached_token, account, interrupted,
                   badInputs, restVars>>

\* line 118 raising anything but Unauthorized.
CachedTokenOtherFailure ==
    /\ pc = "try_cache"
    /\ authLog' = Append(authLog, Call("MyPlexAccount", "token", "failed"))
    /\ Fatal
    /\ UNCHANGED <<dry_run, givenVars, credFile, cached_token, account, interrupted,
                   badInputs, restVars>>

\* An input() or getpass() call that the user interrupts: neither exception is
\* caught in authenticate_myplex. EOFError is an Exception and reaches main's
\* except clause; KeyboardInterrupt is not and leaves main unhandled.
InputInterrupted(at, kind) ==
    /\ interrupted' = [at |-> at, kind |-> kind]
    /\ IF kind = "EOFError" THEN Fatal ELSE Halt("unhandled_interrupt")

\* lines 125-126, 130-131.
UsernameKnown ==
    /\ pc = "prompt_username"
    /\ args.username \/ plexConfig.username
    /\ pc' = "prompt_password"
    /\ UNCHANGED <<exit, dry_run, mainVars, restVars>>

UsernameTyped ==
    /\ pc = "prompt_username"
    /\ ~(args.username \/ plexConfig.username)
    /\ authLog' = Append(authLog, Call("input", "username", "ok"))
    /\ pc' = "prompt_password"
    /\ UNCHANGED <<exit, dry_run, givenVars, credFile, cached_token, account,
                   interrupted, badInputs, restVars>>

UsernameInterrupted ==
    /\ pc = "prompt_username"
    /\ ~(args.username \/ plexConfig.username)
    /\ \E kind \in InputInterruptions :
           /\ authLog' = Append(authLog, Call("input", "username", kind))
           /\ InputInterrupted("username", kind)
    /\ UNCHANGED <<dry_run, givenVars, credFile, cached_token, account, badInputs,
                   restVars>>

\* lines 127-128, 132-133.
PasswordKnown ==
    /\ pc = "prompt_password"
    /\ args.password \/ plexConfig.password
    /\ pc' = "password_attempt"
    /\ UNCHANGED <<exit, dry_run, mainVars, restVars>>

PasswordTyped ==
    /\ pc = "prompt_password"
    /\ ~(args.password \/ plexConfig.password)
    /\ authLog' = Append(authLog, Call("getpass", "password", "ok"))
    /\ pc' = "password_attempt"
    /\ UNCHANGED <<exit, dry_run, givenVars, credFile, cached_token, account,
                   interrupted, badInputs, restVars>>

PasswordInterrupted ==
    /\ pc = "prompt_password"
    /\ ~(args.password \/ plexConfig.password)
    /\ \E kind \in InputInterruptions :
           /\ authLog' = Append(authLog, Call("getpass", "password", kind))
           /\ InputInterrupted("password", kind)
    /\ UNCHANGED <<dry_run, givenVars, credFile, cached_token, account, badInputs,
                   restVars>>

\* The text of an Unauthorized rejection, as a sequence of words.
RejectionMessages ==
    { <<"(401)", "unauthorized">>,
      <<"Please", "enter", "the", "Verification", "Code">>,
      <<"verification", "code", "required">>,
      <<"(401)", "code:", "1029">>,
      <<"verification", "failed">>,
      <<"invalid", "code">> }

lower_word(w) ==
    CASE w = "Please" -> "please"
      [] w = "Verification" -> "verification"
      [] w = "Code" -> "code"
      [] OTHER -> w

lower(words) == [k \in 1..Len(words) |-> lower_word(words[k])]

contains(words, needle) ==
    \E k \in 0..(Len(words) - Len(needle)) :
        SubSeq(words, k + 1, k + Len(needle)) = needle

needs_verification_code_exact_case(message) ==
    \/ contains(message, <<"verification", "code">>)
    \/ contains(message, <<"1029">>)

\* line 140.
needs_verification_code(message) ==
    \/ contains(lower(message), <<"verification", "code">>)
    \/ contains(message, <<"1029">>)

Saved(token, outcome) ==
    Call("save_cached_token", token,
         IF outcome \in {"written"} THEN "ok" ELSE outcome)

\* lines 138, 147-150.
PasswordAccepted ==
    /\ pc = "password_attempt"
    /\ \E token \in Tokens, outcome \in SaveOutcomes :
           /\ authLog' = authLog \o << Call("MyPlexAccount", "password", "ok"),
                                       Saved(token, outcome) >>
           /\ credFile' = save_cached_token(credFile, token, outcome)
           /\ account' = token
    /\ pc' = "select_server"
    /\ UNCHANGED <<exit, dry_run, givenVars, cached_token, interrupted, badInputs,
                   restVars>>

\* lines 138-144.
PasswordRejected ==
    /\ pc = "password_attempt"
    /\ authLog' = Append(authLog, Call("MyPlexAccount", "password", "Unauthorized"))
    /\ \E message \in RejectionMessages :
           /\ rejection' = message
           /\ IF needs_verification_code(message)
              THEN pc' = "prompt_code" /\ exit' = exit
              ELSE Fatal
    /\ UNCHANGED <<dry_run, givenVars, credFile, cached_token, account, interrupted,
                   badInputs, batchVars, pathVars, run, first, raised, credFile0,
                   typed>>

\* line 138 raising anything but Unauthorized.
PasswordOtherFailure ==
    /\ pc = "password_attempt"
    /\ authLog' = Append(authLog, Call("MyPlexAccount", "password", "failed"))
    /\ Fatal
    /\ UNCHANGED <<dry_run, givenVars, credFile, cached_token, account, interrupted,
                   badInputs, restVars>>

\* line 141.
CodeTyped ==
    /\ pc = "prompt_code"
    /\ authLog' = Append(authLog, Call("input", "code", "ok"))
    /\ pc' = "code_attempt"
    /\ UNCHANGED <<exit, dry_run, givenVars, credFile, cached_token, account,
                   interrupted, badInputs, restVars>>

CodeInterrupted ==
    /\ pc = "prompt_code"
    /\ \E kind \in InputInterruptions :
           /\ authLog' = Append(authLog, Call("input", "code", kind))
           /\ InputInterrupted("code", kind)
    /\ UNCHANGED <<dry_run, givenVars, credFile, cached_token, account, badInputs,
                   restVars>>

CodeAcceptedNoSave ==
    /\ pc = "code_attempt"
    /\ \E token \in Tokens :
           /\ authLog' = Append(authLog, Call("MyPlexAccount", "code", "ok"))
           /\ account' = token
    /\ pc' = "select_server"
    /\ UNCHANGED <<exit, dry_run, givenVars, credFile, cached_token, interrupted,
                   badInputs, restVars>>

\* lines 142, 147-150.
CodeAccepted ==
    /\ pc = "code_attempt"
    /\ \E token \in Tokens, outcome \in SaveOutcomes :
           /\ authLog' = authLog \o << Call("MyPlexAccount", "code", "ok"),
                                       Saved(token, outcome) >>
           /\ credFile' = save_cached_token(credFile, token, outcome)
           /\ account' = token
    /\ pc' = "select_server"
    /\ UNCHANGED <<exit, dry_run, givenVars, cached_token, interrupted, badInputs,
                   restVars>>

\* line 142 raising, Unauthorized or not: nothing catches it before main.
CodeAttemptFails ==
    /\ pc = "code_attempt"
    /\ \E failure \in {"Unauthorized", "failed"} :
           authLog' = Append(authLog, Call("MyPlexAccount", "code", failure))
    /\ Fatal
    /\ UNCHANGED <<dry_run, givenVars, credFile, cached_token, account, interrupted,
                   badInputs, restVars>>

\* A menu answer that is no valid number: the prompt is shown again.
BadInput ==
    /\ badInputs < MaxBadInputs
    /\ badInputs' = badInputs + 1
    /\ UNCHANGED <<pc, exit, dry_run, givenVars, credFile, cached_token, account,
                   authLog, interrupted, restVars>>

MenuCancelled(at) ==
    /\ \E kind \in InputInterruptions : interrupted' = [at |-> at, kind |-> kind]
    /\ Cancelled
    /\ UNCHANGED <<dry_run, givenVars, credFile, cached_token, account, authLog,
                   badInputs, restVars>>

\* select_server (lines 153-182): account.resources() or connect() may raise.
SelectServer ==
    /\ pc = "select_server"
    /\ \/ pc' = "select_library" /\ exit' = exit
       \/ SysExit1
       \/ Fatal
    /\ UNCHANGED <<dry_run, mainVars, restVars>>

SelectServerBadInput == pc = "select_server" /\ BadInput

SelectServerCancelled == pc = "select_server" /\ MenuCancelled("server")

\* select_library (lines 185-209).
SelectLibrary ==
    /\ pc = "select_library"
    /\ \/ pc' = "prompt_run_mode" /\ exit' = exit
       \/ SysExit1
       \/ Fatal
    /\ UNCHANGED <<dry_run, mainVars, restVars>>

SelectLibraryBadInput == pc = "select_library" /\ BadInput

SelectLibraryCancelled == pc = "select_library" /\ MenuCancelled("library")

lower_char(c) ==
    CASE c = "Y" -> "y"
      [] c = "E" -> "e"
      [] c = "S" -> "s"
      [] OTHER -> c

lower_chars(s) == [k \in 1..Len(s) |-> lower_char(s[k])]

ChoiceInputs == { <<"1">>, <<" ", "1">>, <<"2">>, <<"2", " ">> }

InvalidChoiceInputs == { <<>>, <<"3">>, <<"1", "2">> }

ConfirmInputs ==
    { <<"y", "e", "s">>, <<" ", "Y", "E", "S", " ">>, <<"Y", "e", "s">>,
      <<"y">>, <<"n", "o">>, <<>>, <<"y", "e", "s", "!">> }

prompt_run_mode_any_y(choice, confirm) ==
    IF strip(choice) = <<"1">> THEN FALSE
    ELSE startswith(lower_chars(strip(confirm)), <<"y">>)

\* prompt_run_mode (lines 336-350): True for a real run.
prompt_run_mode(choice, confirm) ==
    IF strip(choice) = <<"1">> THEN FALSE
    ELSE lower_chars(strip(confirm)) = <<"y", "e", "s">>

\* lines 431-434: the answer decides dry_run and the batch is started.
PromptRunMode ==
    /\ pc = "prompt_run_mode"
    /\ \E choice \in ChoiceInputs, confirm \in ConfirmInputs :
           /\ dry_run' = ~prompt_run_mode(choice, confirm)
           /\ typed' = [choice |-> choice,
                        confirm |-> IF strip(choice) = <<"1">> THEN NotAsked
                                                               ELSE confirm]
    /\ pc' = "process_library_items"
    /\ UNCHANGED <<exit, mainVars, batchVars, pathVars, run, first, raised,
                   credFile0, rejection>>

PromptRunModeBadInput ==
    /\ pc = "prompt_run_mode"
    /\ \E choice \in InvalidChoiceInputs : strip(choice) \notin {<<"1">>, <<"2">>}
    /\ BadInput

PromptRunModeCancelled == pc = "prompt_run_mode" /\ MenuCancelled("run_mode")

Next ==
    \/ LoadConfig
    \/ ConnectDirect
    \/ LoadCachedToken
    \/ CachedTokenAccepted
    \/ CachedTokenRejected
    \/ CachedTokenOtherFailure
    \/ UsernameKnown
    \/ UsernameTyped
    \/ UsernameInterrupted
    \/ PasswordKnown
    \/ PasswordTyped
    \/ PasswordInterrupted
    \/ PasswordAccepted
    \/ PasswordRejected
    \/ PasswordOtherFailure
    \/ CodeTyped
    \/ CodeInterrupted
    \/ CodeAccepted
    \/ CodeAttemptFails
    \/ SelectServer
    \/ SelectServerBadInput
    \/ SelectServerCancelled
    \/ SelectLibrary
    \/ SelectLibraryBadInput
    \/ SelectLibraryCancelled
    \/ PromptRunMode
    \/ PromptRunModeBadInput
    \/ PromptRunModeCancelled

Spec == Init /\ [][Next]_vars

\* ------------------------------------------- properties of the batch loop
Handled == 1..idx

RequestsFor(i) == {k \in 1..Len(llmLog) : llmLog[k].item = i}

WritesFor(i) == {k \in 1..Len(writeLog) : writeLog[k].item = i}

GenerationRaised(i) == \E k \in RequestsFor(i) : llmLog[k].result # "ok"

WriteBackRaised(i) == \E k \in WritesFor(i) : writeLog[k].result = "raised"

FailedItems == {i \in 1..Len(items) : GenerationRaised(i) \/ WriteBackRaised(i)}

CountedAs(tag) == {i \in 1..Len(counted) : counted[i] = tag}

\* A locked title field, read off the item's field records.
HasLockedTitle(it) ==
    \E k \in 1..Len(it.fields) : it.fields[k].name = "title" /\ it.fields[k].locked

\* No file part that resolves to a path, read off the item's part records.
NoResolvablePart(it) ==
    \/ ~it.hasIterParts
    \/ \A k \in 1..Len(it.parts) : it.parts[k] = EmptyFile

\* C1: an exception raised by title generation or by the write-back of an item
\* adds one to errors for that item and does not leave the loop: the item is
\* handled and counted as an error, errors counts exactly the failed items, and
\* the items after it are handled (a batch that ends normally has handled all).
C1_FailureIsolated ==
    /\ \A i \in FailedItems : i \in Handled /\ counted[i] = "errors"
    /\ errors = Cardinality(FailedItems)
    /\ (FailedItems # {} /\ exit = "completed_0") => idx = Len(items)
    /\ (FailedItems # {} /\ exit = "error_1") =>
           (idx < Len(items) /\ RequestsFor(idx + 1) = {} /\ WritesFor(idx + 1) = {})

C1_Witness ==
    /\ exit = "completed_0"
    /\ Len(items) = 2
    /\ WriteBackRaised(1)
    /\ counted = <<"errors", "processed">>

\* C2: in preview mode editTitle is never called and every title of the catalog
\* is the one it had before the batch; in apply mode an item's write-back comes
\* after a successful generation for that item and carries the generated title.
C2_PreviewNeverWrites ==
    /\ dry_run => (writeLog = <<>> /\ \A i \in 1..Len(titles) : titles[i] = OldTitle)
    /\ \A k \in 1..Len(writeLog) :
           \E j \in RequestsFor(writeLog[k].item) :
               /\ llmLog[j].result = "ok"
               /\ writeLog[k].title = strip(llmLog[j].content)
    /\ \A i \in 1..Len(titles) : titles[i] # OldTitle => WritesFor(i) # {}

C2_Witness ==
    /\ dry_run
    /\ exit = "completed_0"
    /\ processed = 2
    /\ \E k \in 1..Len(llmLog) : strip(llmLog[k].content) # OldTitle

\* C3: the four counters start at 0, every handled item adds one to exactly one
\* of them, so they sum to the number of items handled and, at the end, to the
\* number of items of the library; processed counts only items whose
\* generation (and, in apply mode, write-back) succeeded.
C3_CountersPartitionItems ==
    /\ Len(counted) = idx
    /\ processed = Cardinality(CountedAs("processed"))
    /\ skipped_locked = Cardinality(CountedAs("skipped_locked"))
    /\ skipped_no_file = Cardinality(CountedAs("skipped_no_file"))
    /\ errors = Cardinality(CountedAs("errors"))
    /\ processed + skipped_locked + skipped_no_file + errors = idx
    /\ idx = 0 =>
           (processed = 0 /\ skipped_locked = 0 /\ skipped_no_file = 0 /\ errors = 0)
    /\ exit = "completed_0" => idx = Len(items)
    /\ \A i \in CountedAs("processed") :
           /\ \E k \in RequestsFor(i) : llmLog[k].result = "ok"
           /\ ~GenerationRaised(i)
           /\ ~WriteBackRaised(i)
           /\ ~dry_run => \E k \in WritesFor(i) : writeLog[k].result = "ok"

C3_Witness ==
    /\ exit = "completed_0"
    /\ ~dry_run
    /\ Len(items) = 2
    /\ processed = 1
    /\ errors = 1

\* C4 as stated: every item with a locked title field, handled by the loop, is
\* counted in skipped_locked and no request is made for it.
C4_LockedAlwaysSkippedLocked ==
    \A i \in Handled :
        HasLockedTitle(items[i]) =>
            (counted[i] = "skipped_locked" /\ RequestsFor(i) = {})

\* C4 amended: no request and no write-back is ever made for an item with a
\* locked title field; the item is counted in skipped_locked when it has a
\* resolvable file part, and in skipped_no_file when it has none.
C4_LockedNeverRequested ==
    \A i \in 1..Len(items) :
        HasLockedTitle(items[i]) =>
            /\ RequestsFor(i) = {}
            /\ WritesFor(i) = {}
            /\ titles[i] = OldTitle
            /\ i \in Handled =>
                   counted[i] = IF NoResolvablePart(items[i])
                                THEN "skipped_no_file" ELSE "skipped_locked"

C4_Witness ==
    /\ exit = "completed_0"
    /\ Len(items) = 2
    /\ items[1].fields = <<SummaryLockedField, TitleLockedField>>
    /\ counted[1] = "skipped_locked"
    /\ HasLockedTitle(items[2]) /\ NoResolvablePart(items[2])
    /\ counted[2] = "skipped_no_file"

\* C5: an item without a resolvable file part, locked or not, is counted in
\* skipped_no_file and in no other counter, and neither a language-model
\* request nor a write-back is made for it.
C5_NoFileSkipped ==
    \A i \in 1..Len(items) :
        NoResolvablePart(items[i]) =>
            /\ RequestsFor(i) = {}
            /\ WritesFor(i) = {}
            /\ i \in Handled => counted[i] = "skipped_no_file"
            /\ i \in Handled =>
                   skipped_no_file = Cardinality({j \in Handled :
                                                    NoResolvablePart(items[j])})

C5_Witness ==
    /\ exit = "completed_0"
    /\ Len(items) = 2
    /\ HasLockedTitle(items[1]) /\ NoResolvablePart(items[1])
    /\ items[2].parts = <<EmptyFile>> /\ ~HasLockedTitle(items[2])
    /\ skipped_no_file = 2

\* ------------------------------------------ properties of get_relative_path
\* A root with its trailing separators removed and one separator added.
NormalizedRoot(root) ==
    LET keep == {n \in 0..Len(root) :
                    /\ n = 0 \/ root[n] # sep
                    /\ \A k \in (n + 1)..Len(root) : root[k] = sep}
    IN  SubSeq(root, 1, CHOOSE n \in keep : TRUE) \o <<sep>>

IsPrefix(p, s) == Len(p) <= Len(s) /\ \A k \in 1..Len(p) : s[k] = p[k]

MatchingRoots == {i \in 1..Len(roots) : IsPrefix(NormalizedRoot(roots[i]), filepath)}

FirstMatchingRoot == CHOOSE i \in MatchingRoots : \A j \in MatchingRoots : i <= j

\* The result is what follows the normalized prefix of the first matching root.
FirstMatchRemainder ==
    (pc = "returned" /\ MatchingRoots # {}) =>
        filepath = NormalizedRoot(roots[FirstMatchingRoot]) \o relative_path

\* C9: when some root's normalized prefix is a prefix of the file path, the
\* result is the remainder after the prefix of the first such root in input
\* order, and that remainder does not begin with a path separator.
C9_FirstMatchNoLeadingSeparator ==
    (pc = "returned" /\ MatchingRoots # {}) =>
        /\ filepath = NormalizedRoot(roots[FirstMatchingRoot]) \o relative_path
        /\ relative_path = <<>> \/ relative_path[1] # sep

\* C10: when no root's normalized prefix is a prefix of the file path, the
\* result is the text after the last separator of the file path: it holds no
\* separator, and what precedes it in the file path is empty or ends with one.
C10_NoMatchGivesLastSegment ==
    (pc = "returned" /\ MatchingRoots = {}) =>
        /\ \A k \in 1..Len(relative_path) : relative_path[k] # sep
        /\ \E n \in 0..Len(filepath) :
               /\ filepath = SubSeq(filepath, 1, n) \o relative_path
               /\ n = 0 \/ filepath[n] = sep

C10_Witness ==
    /\ pc = "returned"
    /\ MatchingRoots = {}
    /\ roots = <<filepath, <<"/", "b">>>>
    /\ filepath = <<"/", "a", "b">>
    /\ relative_path = <<"a", "b">>

\* --------------------------------- properties of the authentication flow
CallsOf(name, arg) ==
    {k \in 1..Len(authLog) : authLog[k].call = name /\ authLog[k].arg = arg}

CachedTokenRejections ==
    {k \in CallsOf("MyPlexAccount", "token") : authLog[k].result = "Unauthorized"}

SavesAfter(k) ==
    {j \in (k + 1)..Len(authLog) : authLog[j].call = "save_cached_token"}

\* C6: when the cached token is rejected, the record is cleared right away
\* (it is absent from then on until a save, unless unlink itself failed), the
\* flow goes on to credential collection, the password attempt comes after
\* the clear, and the flow ends only after a password attempt or a cancelled
\* prompt, never at the rejection.
C6_RejectionClearsThenPrompts ==
    \A k \in CachedTokenRejections :
        /\ k < Len(authLog)
        /\ authLog[k + 1].call = "clear_cached_token"
        /\ \A j \in CallsOf("MyPlexAccount", "password") : j > k + 1
        /\ (authLog[k + 1].result = "ok" /\ SavesAfter(k) = {}) => credFile = "absent"
        /\ k + 1 = Len(authLog) =>
               /\ pc \in {"prompt_username", "prompt_password", "password_attempt"}
               /\ exit = "running"
        /\ exit # "running" =>
               \/ CallsOf("MyPlexAccount", "password") # {}
               \/ interrupted.at \in {"username", "password"}

C6_Witness ==
    /\ CachedTokenRejections # {}
    /\ \E j \in CallsOf("MyPlexAccount", "password") : authLog[j].result = "ok"
    /\ \E j \in CallsOf("input", "username") : authLog[j].result = "ok"
    /\ pc = "select_server"
    /\ account = "T_new"
    /\ credFile = "T_new"

\* C7 as stated: whenever authenticate_myplex has returned an account, by any
\* path, save_cached_token was called with its token.
C7_SavedOnEveryReturn ==
    account # "none" => CallsOf("save_cached_token", account) # {}

\* C7 amended: when authenticate_myplex returns after a password or a
\* password-and-code attempt, its last call was save_cached_token with the
\* token of the account, right after the accepted attempt; when it returns on
\* the cached token it saves nothing, and the record holds that token already.
C7_SavedOnInteractiveReturn ==
    account # "none" =>
        IF \E k \in CallsOf("MyPlexAccount", "token") : authLog[k].result = "ok"
        THEN /\ \A k \in 1..Len(authLog) : authLog[k].call # "save_cached_token"
             /\ account = cached_token
             /\ credFile = account
        ELSE /\ Len(authLog) >= 2
             /\ authLog[Len(authLog)].call = "save_cached_token"
             /\ authLog[Len(authLog)].arg = account
             /\ authLog[Len(authLog) - 1].call = "MyPlexAccount"
             /\ authLog[Len(authLog) - 1].arg \in {"password", "code"}
             /\ authLog[Len(authLog) - 1].result = "ok"

C7_Witness ==
    /\ account = "T_new"
    /\ pc = "select_server"
    /\ \E k \in CallsOf("MyPlexAccount", "code") : authLog[k].result = "ok"
    /\ CallsOf("save_cached_token", "T_new") # {}
    /\ credFile = "T_new"

\* C8: an interruption of the username, password or 2FA-code prompt ends the
\* process through the clean cancellation path (notice, status 0).
C8_InterruptIsCleanCancel ==
    interrupted.at \in {"username", "password", "code"} => exit = "cancelled_0"

\* -------------------------------------- properties of the repeated run
OkRequests(log) == SelectSeq(log, LAMBDA r : r.result = "ok")

\* The (old, new) title pairs a run reported, in order.
Proposals(log, catalog) ==
    [k \in 1..Len(OkRequests(log)) |->
        <<catalog[OkRequests(log)[k].item], strip(OkRequests(log)[k].content)>>]

\* C11: two preview runs against the same catalog, with a service that gives
\* the same answer for the same path, end the same way with the same four
\* counters and the same proposed (old, new) title pairs, and the catalog
\* after the first run holds the titles it held before.
C11_PreviewIdempotent ==
    /\ run = 2 => first.titles = [i \in 1..Len(first.items) |-> OldTitle]
    /\ (run = 2 /\ pc = "halt") =>
           /\ exit = first.exit
           /\ processed = first.processed
           /\ skipped_locked = first.skipped_locked
           /\ skipped_no_file = first.skipped_no_file
           /\ errors = first.errors
           /\ Proposals(llmLog, titles) = Proposals(first.llmLog, first.titles)
           /\ out = first.out

C11_Witness ==
    /\ run = 2
    /\ pc = "halt"
    /\ exit = "completed_0"
    /\ counted = <<"processed", "errors">>
    /\ first.processed = 1
    /\ first.errors = 1
    /\ Len(Proposals(llmLog, titles)) = 1

\* ------------------------------- properties of failures outside the try
\* C12: a batch that has started to iterate ends with the summary (and, in
\* preview mode, the no-changes statement) after the last item, whatever
\* number of items failed in path resolution, generation or write-back.
C12_SummaryAlwaysPrinted ==
    (pc = "halt" /\ raised.step \notin {"fetch", "item_access"}) =>
        /\ exit = "completed_0"
        /\ idx = Len(items)
        /\ \E k \in 1..Len(out) : out[k] = "Summary"
        /\ dry_run => out[Len(out)] = "This was a DRY RUN"

\* C15: a failure raised while the path of an eligible item is resolved is
\* caught at the item boundary: the item is counted in errors, an ERROR line
\* is printed for it, and the exception does not leave the loop.
C15_ResolutionFailureIsolated ==
    raised.step = "resolve_path" =>
        /\ exit # "error_1"
        /\ raised.item \in Handled
        /\ counted[raised.item] = "errors"
        /\ errors >= 1
        /\ \E k \in 1..Len(out) : out[k] = "ERROR"

\* ----------------------------------------- properties of main (Spec)
\* C13: with an empty or missing system_prompt main ends with a non-zero
\* status before any network call: no connection and no authentication is
\* attempted, the credential file is neither read nor changed, and no
\* language-model request is made.
C13_EmptyPromptAbortsEarly ==
    cfg \in {"empty_prompt", "no_prompt"} =>
        /\ pc \in {"main", "halt"}
        /\ pc = "halt" => exit = "sys_exit_1"
        /\ authLog = <<>>
        /\ credFile = credFile0
        /\ cached_token = "none"
        /\ account = "none"
        /\ llmLog = <<>> /\ writeLog = <<>>

C13_Witness ==
    /\ cfg = "no_prompt"
    /\ pc = "halt" /\ exit = "sys_exit_1"
    /\ args.url /\ args.token
    /\ credFile = "T_cached"

\* The message holds the words "verification code", in any case.
MentionsVerificationCode(message) ==
    \E k \in 1..(Len(message) - 1) :
        /\ message[k] \in {"verification", "Verification"}
        /\ message[k + 1] \in {"code", "Code"}

MentionsErrorCode(message) == \E k \in 1..Len(message) : message[k] = "1029"

PasswordRejections ==
    {k \in CallsOf("MyPlexAccount", "password") : authLog[k].result = "Unauthorized"}

CodePromptReached ==
    pc \in {"prompt_code", "code_attempt"} \/ CallsOf("input", "code") # {}

EndedInErrorAt(k) ==
    /\ k = Len(authLog)
    /\ pc = "halt" /\ exit = "error_1"
    /\ account = "none"
    /\ \A j \in 1..Len(authLog) : authLog[j].call # "save_cached_token"

\* C14: a rejected password attempt leads to the 2FA prompt, and to one retry
\* with the entered code, exactly when its message holds "verification code"
\* (in any case) or the error code 1029; any other rejection of the password
\* attempt and any rejection of the retry end the flow with an error, no
\* token saved and no further attempt.
C14_TwoFactorOnlyOnChallenge ==
    /\ Cardinality(CallsOf("MyPlexAccount", "password")) <= 1
    /\ Cardinality(CallsOf("MyPlexAccount", "code")) <= 1
    /\ CodePromptReached =>
           /\ PasswordRejections # {}
           /\ MentionsVerificationCode(rejection) \/ MentionsErrorCode(rejection)
    /\ \A k \in PasswordRejections :
           IF MentionsVerificationCode(rejection) \/ MentionsErrorCode(rejection)
           THEN /\ CodePromptReached
                /\ k = Len(authLog) => pc = "prompt_code" /\ exit = "running"
                /\ k < Len(authLog) => authLog[k + 1] = Call("input", "code", authLog[k + 1].result)
                /\ \A j \in CallsOf("MyPlexAccount", "code") :
                       j = k + 2 /\ authLog[k + 1].result = "ok"
                /\ (k + 1 < Len(authLog) \/ pc = "code_attempt") =>
                       authLog[k + 1].result = "ok"
                /\ k + 1 < Len(authLog) => CallsOf("MyPlexAccount", "code") = {k + 2}
           ELSE /\ ~CodePromptReached
                /\ EndedInErrorAt(k)
    /\ \A j \in CallsOf("MyPlexAccount", "code") :
           authLog[j].result # "ok" => EndedInErrorAt(j)

C14_Witness ==
    /\ rejection = <<"Please", "enter", "the", "Verification", "Code">>
    /\ \E j \in CallsOf("MyPlexAccount", "code") : authLog[j].result = "Unauthorized"
    /\ pc = "halt" /\ exit = "error_1"
    /\ credFile0 = "T_cached" /\ credFile = "absent"

CachedTokenOtherFailures ==
    {k \in CallsOf("MyPlexAccount", "token") : authLog[k].result = "failed"}

\* C16: a failure of the cached-token attempt that is no rejection is fatal:
\* it is the last thing the flow does, the process ends with a non-zero
\* status, no credential is prompted for, no password attempt is made, and
\* the credential record is as it was before the run.
C16_OtherCacheFailureIsFatal ==
    \A k \in CachedTokenOtherFailures :
        /\ k = Len(authLog)
        /\ pc = "halt" /\ exit = "error_1"
        /\ account = "none"
        /\ credFile = credFile0
        /\ \A j \in 1..Len(authLog) :
               authLog[j].call \notin {"input", "getpass", "clear_cached_token",
                                       "save_cached_token"}
        /\ CallsOf("MyPlexAccount", "password") = {}
        /\ interrupted = NotInterrupted

C16_Witness ==
    /\ CachedTokenOtherFailures # {}
    /\ pc = "halt" /\ exit = "error_1"
    /\ credFile = "T_cached" /\ cached_token = "T_cached"
    /\ ~args.username /\ ~plexConfig.username

\* ------------------------------------ properties of the requests (SpecBatch)
\* The first part of the item that has a file, read off its part records.
FirstFile(it) ==
    it.parts[CHOOSE k \in 1..Len(it.parts) :
                 /\ it.parts[k] # EmptyFile
                 /\ \A j \in 1..(k - 1) : it.parts[j] = EmptyFile]

LastSeparator(file) ==
    CHOOSE n \in 0..Len(file) :
        /\ n = 0 \/ file[n] = sep
        /\ \A k \in (n + 1)..Len(file) : file[k] # sep

\* The path of a file relative to the first location it lies under, its last
\* segment when it lies under none.
ResolvedPath(file, locations) ==
    LET under == {i \in 1..Len(locations) : IsPrefix(NormalizedRoot(locations[i]), file)}
        i0 == CHOOSE i \in under : \A j \in under : i <= j
    IN  IF under # {}
        THEN SubSeq(file, Len(NormalizedRoot(locations[i0])) + 1, Len(file))
        ELSE SubSeq(file, LastSeparator(file) + 1, Len(file))

IsEligible(it) == ~NoResolvablePart(it) /\ ~HasLockedTitle(it)

\* C17: every eligible item the loop has handled got exactly one request,
\* also when that request failed, and no other item got any; the requests
\* follow the order of the items; each carries the resolved path of the
\* first file part of its item; a batch that ends with the summary has
\* handled every item.
C17_OneRequestPerEligibleItem ==
    /\ \A i \in 1..Len(items) :
           IF i \in Handled /\ IsEligible(items[i])
           THEN Cardinality(RequestsFor(i)) = 1
           ELSE RequestsFor(i) = {}
    /\ \A k \in 1..Len(llmLog) :
           /\ llmLog[k].item \in 1..Len(items)
           /\ \A j \in 1..(k - 1) : llmLog[j].item < llmLog[k].item
           /\ llmLog[k].path =
                  ResolvedPath(FirstFile(items[llmLog[k].item]), library_locations)
    /\ exit = "completed_0" => idx = Len(items)

C17_Witness ==
    /\ exit = "completed_0"
    /\ Len(items) = 2 /\ Len(llmLog) = 2
    /\ library_locations = << <<"/">>, <<"/", "m">> >>
    /\ llmLog[1].result # "ok" /\ llmLog[1].path = <<"m", "/", "a">>
    /\ llmLog[2].result = "ok" /\ llmLog[2].path = <<"x", "/", "b">>

\* ------------------------------------ properties of the run mode (Spec)
Spaces(s, from, to) == \A k \in from..to : s[k] = " "

\* s is one of cores with blanks before and after it.
TrimsTo(s, cores) ==
    \E i \in 1..Len(s), j \in 1..Len(s) :
        /\ i <= j
        /\ Spaces(s, 1, i - 1) /\ Spaces(s, j + 1, Len(s))
        /\ SubSeq(s, i, j) \in cores

YesSpellings == {<<y, e, s>> : y \in {"y", "Y"}, e \in {"e", "E"}, s \in {"s", "S"}}

\* C18: the batch is started in apply mode only when the user typed "2" and
\* then "yes" (blanks around it and case aside); after "1" no confirmation
\* is asked and the batch is a preview, after "2" and any other answer it
\* is a preview as well; a cancelled run-mode prompt ends the process with
\* status 0 and the batch is never started.
C18_ApplyOnlyAfterYes ==
    /\ pc = "process_library_items" =>
           /\ ~dry_run <=> /\ TrimsTo(typed.choice, {<<"2">>})
                           /\ TrimsTo(typed.confirm, YesSpellings)
           /\ TrimsTo(typed.choice, {<<"1">>}) => typed.confirm = NotAsked /\ dry_run
           /\ TrimsTo(typed.choice, {<<"1">>, <<"2">>})
    /\ pc # "process_library_items" => dry_run /\ typed = NothingTyped
    /\ interrupted.at = "run_mode" =>
           /\ pc = "halt" /\ exit = "cancelled_0"
           /\ items = <<>> /\ idx = 0 /\ llmLog = <<>> /\ writeLog = <<>>

C18_Witness ==
    /\ pc = "process_library_items"
    /\ ~dry_run
    /\ typed = [choice |-> <<"2", " ">>, confirm |-> <<" ", "Y", "E", "S", " ">>]
    /\ account # "none"

\* ------------------------------- properties of the connection (Spec)
Connected == pc \in {"select_library", "prompt_run_mode", "process_library_items"}

\* C19: with both --url and --token main never enters authenticate_myplex:
\* no call of the flow is made and the credential record is neither read,
\* written nor cleared; when one of the two is missing, whatever main does
\* after the configuration begins with authenticate_myplex, and a server is
\* reached only with the account it returned.
C19_DirectSkipsAuthentication ==
    /\ (args.url /\ args.token) =>
           /\ authLog = <<>>
           /\ credFile = credFile0
           /\ cached_token = "none"
           /\ account = "none"
           /\ rejection = <<>>
           /\ interrupted.at \notin {"username", "password", "code", "server"}
    /\ (~(args.url /\ args.token) /\ cfg = "ok" /\ pc \notin {"main", "connect"}) =>
           /\ authLog # <<>>
           /\ authLog[1].call = "load_cached_token"
           /\ Connected => account # "none"

C19_Witness ==
    /\ args.url /\ args.token
    /\ pc = "process_library_items"
    /\ credFile = "T_cached"
    /\ authLog = <<>>

\* ----------------------------- properties of the credential record (Spec)
InteractiveAttempts ==
    CallsOf("MyPlexAccount", "password") \cup CallsOf("MyPlexAccount", "code")

\* The flow ended at a failed password or password-and-code attempt.
InteractiveFailed ==
    /\ pc = "halt" /\ account = "none"
    /\ Len(authLog) \in InteractiveAttempts
    /\ authLog[Len(authLog)].result # "ok"

\* The flow returned after an accepted attempt whose token was written.
InteractiveSavedAs(token) ==
    /\ account = token /\ token # "none"
    /\ \E k \in InteractiveAttempts : authLog[k].result = "ok"
    /\ \E k \in CallsOf("save_cached_token", token) :
           authLog[k].result \in {"ok", "chmod_failed"}

====
